---- MODULE Spec2Model ----
(***************************************************************************)
(* Model of reqwest-sse (src/src/lib.rs): the EventSource::events entry    *)
(* point, the try_stream! generator that reads lines from the response     *)
(* body through a StreamReader, and the EventBuffer that assembles         *)
(* Server-Sent Events.                                                     *)
(*                                                                         *)
(* Text is a sequence of one-character strings (bytes); Option<T> is a     *)
(* sequence of length 0 (None) or 1 (Some).                                *)
(***************************************************************************)
EXTENDS Integers, Sequences, FiniteSets, TLC

\* ------------------------------------------------------------------ bounds
\* lines the server sends on one response, one line to a chunk
MaxLines == 4
\* lines the server sends on a response whose chunks are cut anywhere
MaxCutLines == 3
\* whole lines the server may add to the wire before one such chunk is taken
MaxChunkLines == 2
\* chunks that end inside the bytes on the wire (or are empty)
MaxCuts == 1
\* requests the consumer makes after the stream has ended
MaxEndPolls == 1

\* ------------------------------------------------------------- text helpers
NL == "\n"
CR == "\r"
\* a byte that is not valid UTF-8 anywhere in a text
InvalidByte == "0xFF"

Take(s, k) == SubSeq(s, 1, k)
Drop(s, k) == SubSeq(s, k + 1, Len(s))

\* position of the first c in s, 0 when there is none
FirstIndex(s, c) ==
    IF \E i \in 1..Len(s) : s[i] = c
    THEN CHOOSE i \in 1..Len(s) : s[i] = c /\ \A j \in 1..(i - 1) : s[j] # c
    ELSE 0

\* String::from_utf8 succeeds
ValidUtf8(s) == \A i \in 1..Len(s) : s[i] # InvalidByte

None == << >>
Some(x) == << x >>

\* --------------------------------------------------------------- constants
StatusOK == 200
MIME_EVENT_STREAM == <<"text/event-stream">>

\* ------------------------------------------------------------- EventBuffer
\* EventBuffer::new
NewEventBuffer ==
    [event_type |-> << >>, data |-> << >>, last_event_id |-> None, retry |-> None]

\* the literal "message"
Message == <<"m", "e", "s", "s", "a", "g", "e">>

\* produce_event without its test of the data buffer
ProducedEventUnchecked(eb) ==
    Some([event_type    |-> IF eb.event_type = << >> THEN Message ELSE eb.event_type,
          data          |-> eb.data,
          last_event_id |-> eb.last_event_id,
          retry         |-> eb.retry])

\* produce_event testing the type as well as the data
ProducedEventTyped(eb) ==
    IF eb.data # << >> \/ eb.event_type # << >>
    THEN Some([event_type    |-> IF eb.event_type = << >> THEN Message ELSE eb.event_type,
               data          |-> eb.data,
               last_event_id |-> eb.last_event_id,
               retry         |-> eb.retry])
    ELSE None

\* produce_event without the default type
ProducedEventRawType(eb) ==
    IF eb.data # << >>
    THEN Some([event_type    |-> eb.event_type,
               data          |-> eb.data,
               last_event_id |-> eb.last_event_id,
               retry         |-> eb.retry])
    ELSE None

\* EventBuffer::produce_event: the Option<Event> it returns
ProducedEvent(eb) ==
    IF eb.data # << >>
    THEN Some([event_type    |-> IF eb.event_type = << >> THEN Message ELSE eb.event_type,
               data          |-> eb.data,
               last_event_id |-> eb.last_event_id,
               retry         |-> eb.retry])
    ELSE None

\* produce_event leaving a buffer as new
ResetEverything(eb) ==
    [event_type |-> << >>, data |-> << >>, last_event_id |-> None, retry |-> None]

\* produce_event clearing the buffer only when it produces an event
ResetIfProduced(eb) ==
    IF eb.data # << >> THEN [eb EXCEPT !.event_type = << >>, !.data = << >>] ELSE eb

\* EventBuffer::produce_event: the buffer it leaves
ResetBuffer(eb) == [eb EXCEPT !.event_type = << >>, !.data = << >>]

set_event_type(eb, event_type) == [eb EXCEPT !.event_type = event_type]

\* push_data without the separator
push_data_unseparated(eb, data) == [eb EXCEPT !.data = eb.data \o data]

push_data(eb, data) ==
    [eb EXCEPT !.data = IF eb.data # << >> THEN eb.data \o <<NL>> \o data
                                            ELSE data]

set_id(eb, id) == [eb EXCEPT !.last_event_id = Some(id)]

set_retry(eb, retry) == [eb EXCEPT !.retry = Some(retry)]

\* ---------------------------------------------------------------- parse_line
\* str::split_once(':') with the (line, "") default
SplitOnce(line) ==
    LET i == FirstIndex(line, ":") IN
    IF i = 0 THEN [field |-> line, value |-> << >>]
             ELSE [field |-> Take(line, i - 1), value |-> Drop(line, i)]

\* a strip of up to two leading spaces
StripPrefixSpaces(value) ==
    IF Len(value) > 1 /\ value[1] = " " /\ value[2] = " " THEN Drop(value, 2)
    ELSE IF Len(value) > 0 /\ value[1] = " " THEN Drop(value, 1)
    ELSE value

\* str::strip_prefix(' ') with the unchanged value as default
StripPrefixSpace(value) ==
    IF Len(value) > 0 /\ value[1] = " " THEN Drop(value, 1) ELSE value

parse_line(line) ==
    LET fv == SplitOnce(line) IN
    [field |-> fv.field, value |-> StripPrefixSpace(fv.value)]

\* ----------------------------------------------------------- value.parse()
Digits == <<"0", "1", "2", "3", "4", "5", "6", "7", "8", "9">>
IsDigit(c) == \E d \in 1..10 : Digits[d] = c
DigitValue(c) == (CHOOSE d \in 1..10 : Digits[d] = c) - 1

RECURSIVE DecimalValue(_)
DecimalValue(s) ==
    IF s = << >> THEN 0
    ELSE 10 * DecimalValue(Take(s, Len(s) - 1)) + DigitValue(s[Len(s)])

\* u64::from_str: an optional '+', then at least one digit, digits only.
\* (Values here stay far below 2^64, so the overflow error cannot occur.)
ParseU64(value) ==
    LET digits == IF Len(value) > 0 /\ value[1] = "+" THEN Drop(value, 1) ELSE value IN
    IF digits # << >> /\ \A i \in 1..Len(digits) : IsDigit(digits[i])
    THEN Some(DecimalValue(digits))
    ELSE None

\* ------------------------------------------------- the body of the loop
FieldEvent == <<"e", "v", "e", "n", "t">>
FieldData  == <<"d", "a", "t", "a">>
FieldId    == <<"i", "d">>
FieldRetry == <<"r", "e", "t", "r", "y">>

\* the match with a line of no known field taken as data
ApplyFieldUnknownAsData(eb, line) ==
    LET fv == parse_line(line) IN
    CASE fv.field = FieldEvent -> set_event_type(eb, fv.value)
      [] fv.field = FieldData  -> push_data(eb, fv.value)
      [] fv.field = FieldId    -> set_id(eb, fv.value)
      [] fv.field = FieldRetry ->
            IF ParseU64(fv.value) # None
            THEN set_retry(eb, ParseU64(fv.value)[1])
            ELSE eb
      [] OTHER -> push_data(eb, line)

\* the match with a retry value that does not parse clearing the retry
ApplyFieldRetryClears(eb, line) ==
    LET fv == parse_line(line) IN
    CASE fv.field = FieldEvent -> set_event_type(eb, fv.value)
      [] fv.field = FieldData  -> push_data(eb, fv.value)
      [] fv.field = FieldId    -> set_id(eb, fv.value)
      [] fv.field = FieldRetry ->
            IF ParseU64(fv.value) # None
            THEN set_retry(eb, ParseU64(fv.value)[1])
            ELSE [eb EXCEPT !.retry = None]
      [] OTHER -> eb

\* match field { ... }: the buffer after one non-blank line
ApplyField(eb, line) ==
    LET fv == parse_line(line) IN
    CASE fv.field = FieldEvent -> set_event_type(eb, fv.value)
      [] fv.field = FieldData  -> push_data(eb, fv.value)
      [] fv.field = FieldId    -> set_id(eb, fv.value)
      [] fv.field = FieldRetry ->
            IF ParseU64(fv.value) # None
            THEN set_retry(eb, ParseU64(fv.value)[1])
            ELSE eb
      [] OTHER -> eb

\* a strip of the '\n' and of a '\r' before it
StripNewlineCr(buf) ==
    LET b == IF Len(buf) > 0 /\ buf[Len(buf)] = NL THEN Take(buf, Len(buf) - 1) ELSE buf IN
    IF Len(b) > 0 /\ b[Len(b)] = CR THEN Take(b, Len(b) - 1) ELSE b

\* line_buffer.strip_suffix('\n') with the unchanged buffer as default
StripNewline(buf) ==
    IF Len(buf) > 0 /\ buf[Len(buf)] = NL THEN Take(buf, Len(buf) - 1) ELSE buf

\* ------------------------------------------------------------------- items
EventItem(e) == [kind |-> "Event", event |-> e]
ErrorItem == [kind |-> "IoError"]
EndItem == [kind |-> "End"]

\* ------------------------------------------------------- the lines on wire
BlankLine  == << >>
DataA      == <<"d", "a", "t", "a", ":", "a">>
DataB      == <<"d", "a", "t", "a", ":", " ", "b">>
DataEmpty  == <<"d", "a", "t", "a", ":">>
EventT     == <<"e", "v", "e", "n", "t", ":", " ", "t">>
EventEmpty == <<"e", "v", "e", "n", "t", ":">>
Id1        == <<"i", "d", ":", "1">>
Id2        == <<"i", "d", ":", " ", "2">>
Retry5     == <<"r", "e", "t", "r", "y", ":", "5">>
Retry7     == <<"r", "e", "t", "r", "y", ":", " ", "7">>
RetryX     == <<"r", "e", "t", "r", "y", ":", "x">>
BadLine    == <<"d", "a", "t", "a", ":", InvalidByte>>
NoData     == <<"n", "o", "d", "a", "t", "a">>
Comment    == <<":", "c">>
UpperData  == <<"D", "a", "t", "a", ":", "a">>
RetryPlus3 == <<"r", "e", "t", "r", "y", ":", "+", "3">>
RetrySpaced == <<"r", "e", "t", "r", "y", ":", " ", " ", "7">>
DataColon  == <<"d", "a", "t", "a", ":", "a", ":", "b">>
DataSpaces == <<"d", "a", "t", "a", ":", " ", " ", "a">>
DataBare   == <<"d", "a", "t", "a">>
EventSpace == <<"e", "v", "e", "n", "t", ":", " ">>
CrLine     == <<CR>>
DataACr    == <<"d", "a", "t", "a", ":", "a", CR>>

\* what the server may send on one response: data and event lines; data
\* and id lines; data and retry lines; a line of each field; and the lines
\* of the responses whose chunks are cut anywhere
TypeVocab  == {BlankLine, DataA, DataEmpty, EventT, EventEmpty}
IdVocab    == {BlankLine, DataA, DataB, Id1, Id2}
RetryVocab == {BlankLine, DataA, Retry5, Retry7, RetryX}
MixedVocab == {BlankLine, DataA, EventT, Id1, Retry5}
CutVocab   == {BlankLine, DataA, BadLine}

\* and on the responses that try the fields: lines of no known field; retry
\* values; colons and spaces; lines that end in a carriage return, with
\* event lines
FieldVocab == {BlankLine, DataA, NoData, Comment, UpperData}
ParseVocab == {BlankLine, DataA, Retry5, RetryPlus3, RetrySpaced}
SplitVocab == {BlankLine, DataColon, DataSpaces, DataBare, EventSpace}
CrVocab    == {BlankLine, DataACr, CrLine, EventT, EventEmpty}

Statuses == {200, 204, 404}
ContentTypes == {None, MIME_EVENT_STREAM, <<"text/plain">>, <<"TEXT/EVENT-STREAM">>}

VARIABLES
    response,       \* the Response: status and Content-Type header
    returned,       \* what events() returned: None before the call
    vocab,          \* server: the lines it may send
    perChunk,       \* server: whole lines it may add to the wire at a time
    linesLeft,      \* server: lines it may still send
    cutsLeft,       \* source: chunks it may still cut short
    sent,           \* history: every byte the server has sent
    cutKinds,       \* history: the kinds of places where a chunk was cut
    wire,           \* bytes sent by the server, not yet taken as a chunk
    srcState,       \* bytes_stream(): "open", "ended" or "failed"
    chunk,          \* StreamReader: the unread rest of its current chunk
    line_buffer,    \* the bytes read_line has put in line_buffer so far
    event_buffer,   \* the EventBuffer
    pc,             \* the generator: "loop", "failed" (after ?), "done"
    requested,      \* a next() of the consumer is waiting for its item
    items,          \* the items the consumer has received, End included
    lines,          \* history: the lines the loop body has been given
    yieldedAt,      \* history: for each yielded event, Len(lines) at its yield
    polls,          \* history: number of polls of the byte source
    requests,       \* history: number of next() calls
    endPolls        \* next() calls made after End or the error item

vars == <<response, returned, vocab, perChunk, linesLeft, cutsLeft, sent, cutKinds, wire, srcState, chunk,
          line_buffer, event_buffer, pc, requested, items, lines, yieldedAt,
          polls, requests, endPolls>>

serverVars == <<vocab, perChunk, linesLeft, cutsLeft, sent, cutKinds, wire, srcState>>
historyVars == <<lines, yieldedAt>>

\* the states of the server and the source at the start
Profiles ==
    { [vocab |-> TypeVocab, lines |-> MaxLines, perChunk |-> 1, cuts |-> 0],
      [vocab |-> IdVocab, lines |-> MaxLines, perChunk |-> 1, cuts |-> 0],
      [vocab |-> RetryVocab, lines |-> MaxLines, perChunk |-> 1, cuts |-> 0],
      [vocab |-> MixedVocab, lines |-> MaxLines, perChunk |-> 1, cuts |-> 0],
      [vocab |-> CutVocab, lines |-> MaxCutLines, perChunk |-> MaxChunkLines,
       cuts |-> MaxCuts] }

\* the same, for the responses that try the fields
FieldProfiles ==
    { [vocab |-> FieldVocab, lines |-> MaxLines, perChunk |-> 1, cuts |-> 0],
      [vocab |-> ParseVocab, lines |-> MaxLines, perChunk |-> 1, cuts |-> 0],
      [vocab |-> SplitVocab, lines |-> MaxLines, perChunk |-> 1, cuts |-> 0],
      [vocab |-> CrVocab, lines |-> MaxLines, perChunk |-> 1, cuts |-> 0],
      [vocab |-> CutVocab, lines |-> MaxCutLines, perChunk |-> MaxChunkLines,
       cuts |-> MaxCuts] }

\* the state when events() is called on a response of one of the profiles
InitWith(profiles) ==
    /\ response \in [status : Statuses, content_type : ContentTypes]
    /\ returned = None
    /\ \E p \in profiles :
          /\ vocab = p.vocab
          /\ perChunk = p.perChunk
          /\ linesLeft = p.lines
          /\ cutsLeft = p.cuts
    /\ sent = << >>
    /\ cutKinds = {}
    /\ wire = << >>
    /\ srcState = "open"
    /\ chunk = << >>
    /\ line_buffer = << >>
    /\ event_buffer = NewEventBuffer
    /\ pc = "loop"
    /\ requested = FALSE
    /\ items = << >>
    /\ lines = << >>
    /\ yieldedAt = << >>
    /\ polls = 0
    /\ requests = 0
    /\ endPolls = 0

Init == InitWith(Profiles)

InitFields == InitWith(FieldProfiles)

\* ------------------------------------------------------------------ events
\* events() checking the Content-Type only when the header is present
EventsResultLenient(r) ==
    IF r.status # StatusOK THEN <<"BadStatus", r.status>>
    ELSE IF r.content_type # None /\ r.content_type # MIME_EVENT_STREAM
         THEN <<"BadContentType", r.content_type>>
    ELSE <<"Ok">>

\* the two checks in the other order
EventsResultTypeFirst(r) ==
    IF r.content_type # MIME_EVENT_STREAM THEN <<"BadContentType", r.content_type>>
    ELSE IF r.status # StatusOK THEN <<"BadStatus", r.status>>
    ELSE <<"Ok">>

\* EventSource::events: the two checks, then the stream is built unread
EventsResult(r) ==
    IF r.status # StatusOK THEN <<"BadStatus", r.status>>
    ELSE IF r.content_type # MIME_EVENT_STREAM THEN <<"BadContentType", r.content_type>>
    ELSE <<"Ok">>

Events ==
    /\ returned = None
    /\ returned' = Some(EventsResult(response))
    /\ UNCHANGED <<response, serverVars, chunk, line_buffer, event_buffer, pc,
                   requested, items, historyVars, polls, requests, endPolls>>

StreamReturned == returned = Some(<<"Ok">>)

\* --------------------------------------------------------------- consumer
\* stream.next(): the consumer asks for one item
Request ==
    /\ StreamReturned
    /\ ~requested
    /\ pc # "loop" => endPolls < MaxEndPolls
    /\ requested' = TRUE
    /\ requests' = requests + 1
    /\ endPolls' = IF pc # "loop" THEN endPolls + 1 ELSE endPolls
    /\ UNCHANGED <<response, returned, serverVars, chunk, line_buffer, event_buffer,
                   pc, items, historyVars, polls>>

\* a generator that runs ahead of the consumer
PolledOrNot == TRUE

\* the generator runs only inside a poll of the stream
Polled == requested

\* ------------------------------------------------- one turn of the loop body
\* yield that hands the new event over before the ones already yielded
YieldFirst(its, event) == <<EventItem(event)>> \o its

\* yield event: the consumer receives it after the items it already has
Yield(its, event) == Append(its, EventItem(event))

\* count == 0 flushing the pending event before the end
BreakFlush ==
    /\ items' = (IF ProducedEvent(event_buffer) # None
                 THEN Append(items, EventItem(ProducedEvent(event_buffer)[1]))
                 ELSE items) \o <<[kind |-> "End"]>>
    /\ pc' = "done"
    /\ requested' = FALSE
    /\ UNCHANGED <<line_buffer, event_buffer, historyVars>>

\* count == 0 reported as an I/O error
BreakAsError ==
    /\ items' = Append(items, [kind |-> "IoError"])
    /\ pc' = "failed"
    /\ requested' = FALSE
    /\ UNCHANGED <<line_buffer, event_buffer, historyVars>>

\* count == 0, break: the generator returns and the stream answers None
Break ==
    /\ items' = Append(items, EndItem)
    /\ pc' = "done"
    /\ requested' = FALSE
    /\ UNCHANGED <<line_buffer, event_buffer, historyVars>>

\* the loop body from "let line = ..." on, given the bytes read_line returned
LoopBody(buf) ==
    LET line == StripNewline(buf) IN
    /\ lines' = Append(lines, line)
    /\ line_buffer' = << >>
    /\ IF line = << >>
       THEN /\ event_buffer' = ResetBuffer(event_buffer)
            /\ IF ProducedEvent(event_buffer) # None
               THEN /\ items' = Yield(items, ProducedEvent(event_buffer)[1])
                    /\ yieldedAt' = Append(yieldedAt, Len(lines) + 1)
                    /\ requested' = FALSE
               ELSE UNCHANGED <<items, yieldedAt, requested>>
       ELSE /\ event_buffer' = ApplyField(event_buffer, line)
            /\ UNCHANGED <<items, yieldedAt, requested>>
    /\ UNCHANGED pc

\* an Err of read_line yielded without leaving the loop
ReadFailedContinue ==
    /\ items' = Append(items, ErrorItem)
    /\ requested' = FALSE
    /\ line_buffer' = << >>
    /\ UNCHANGED <<pc, event_buffer, historyVars>>

\* an Err of read_line that hands over the pending event in place of the error
ReadFailedFlush ==
    /\ items' = Append(items, IF ProducedEvent(event_buffer) # None
                              THEN EventItem(ProducedEvent(event_buffer)[1])
                              ELSE ErrorItem)
    /\ pc' = "failed"
    /\ requested' = FALSE
    /\ UNCHANGED <<line_buffer, event_buffer, historyVars>>

\* read_line(...).await.map_err(EventError::IoError)? on an Err
ReadFailed ==
    /\ items' = Append(items, ErrorItem)
    /\ pc' = "failed"
    /\ requested' = FALSE
    /\ UNCHANGED <<line_buffer, event_buffer, historyVars>>

\* read_line has its bytes: from_utf8, then the loop body
LineRead(buf) ==
    IF ValidUtf8(buf) THEN LoopBody(buf) ELSE ReadFailed

\* ----------------------------------------------------------- StreamReader
Flatten(ls, terminated) ==
    LET F[i \in 0..Len(ls)] ==
            IF i = 0 THEN << >>
            ELSE F[i - 1] \o ls[i] \o (IF i = Len(ls) /\ ~terminated THEN << >> ELSE <<NL>>)
    IN F[Len(ls)]

\* the line sequences the server may put on the wire before one poll
Sendable ==
    UNION { [1..n -> vocab] : n \in 0..(IF linesLeft < perChunk THEN linesLeft ELSE perChunk) }

\* where the chunk of the first k bytes of w ends: it is empty, it ends
\* inside a line, or between a line and its '\n'; nothing to note otherwise
CutKind(w, k) ==
    IF k = 0 THEN {"empty"}
    ELSE IF k = Len(w) \/ w[k] = NL THEN {}
    ELSE IF w[k + 1] = NL THEN {"before newline"}
    ELSE {"in line"}

\* poll_fill_buf with no chunk left: the source hands over its next chunk.
\* An empty chunk leaves the reader without a chunk, and it polls again.
FillBufChunk ==
    /\ StreamReturned /\ Polled /\ pc = "loop" /\ chunk = << >>
    /\ srcState = "open"
    /\ \E ls \in Sendable, terminated \in BOOLEAN :
          /\ ~terminated => (ls # << >> /\ ls[Len(ls)] # << >>)
          /\ LET w == wire \o Flatten(ls, terminated) IN
             \E k \in 0..Len(w) :
                /\ (k = 0 \/ k < Len(w)) => cutsLeft > 0
                /\ chunk' = Take(w, k)
                /\ wire' = Drop(w, k)
                /\ sent' = sent \o Flatten(ls, terminated)
                /\ cutKinds' = cutKinds \cup CutKind(w, k)
                /\ cutsLeft' = IF k = 0 \/ k < Len(w) THEN cutsLeft - 1 ELSE cutsLeft
          /\ linesLeft' = IF terminated THEN linesLeft - Len(ls) ELSE 0
    /\ polls' = polls + 1
    /\ UNCHANGED <<response, returned, vocab, perChunk, srcState, line_buffer, event_buffer, pc,
                   requested, items, historyVars, requests, endPolls>>

\* the end of the source taken for a read of no bytes
CountAsZero(buf) == TRUE

\* count == 0: read_line has read no byte
CountIsZero(buf) == Len(buf) = 0

\* poll_fill_buf with no chunk left: the source is at its end, read_line
\* returns what it has: nothing (count == 0, break) or the last line. After
\* an unterminated last line the loop polls the ended source once more, which
\* reports its end again.
FillBufEnd ==
    /\ StreamReturned /\ Polled /\ pc = "loop" /\ chunk = << >>
    /\ srcState \in {"open", "ended"}
    /\ wire = << >>
    /\ srcState' = "ended"
    /\ polls' = polls + 1
    /\ IF CountIsZero(line_buffer)
       THEN Break
       ELSE LineRead(line_buffer)
    /\ UNCHANGED <<response, returned, vocab, perChunk, linesLeft, cutsLeft, sent, cutKinds, wire, chunk,
                   requests, endPolls>>

\* poll_fill_buf with no chunk left: the source fails
FillBufErr ==
    /\ StreamReturned /\ Polled /\ pc = "loop" /\ chunk = << >>
    /\ srcState = "open"
    /\ srcState' = "failed"
    /\ polls' = polls + 1
    /\ ReadFailed
    /\ UNCHANGED <<response, returned, vocab, perChunk, linesLeft, cutsLeft, sent, cutKinds, wire, chunk,
                   requests, endPolls>>

\* read_until starting each chunk with an empty buffer
AccumulateAfresh(buf, bytes) == bytes

\* read_until: extend the bytes read so far with those taken from the chunk
Accumulate(buf, bytes) == buf \o bytes

\* read_until on a chunk: take it up to and with its first '\n'
ReadChunk ==
    /\ StreamReturned /\ Polled /\ pc = "loop" /\ chunk # << >>
    /\ LET i == FirstIndex(chunk, NL) IN
       IF i = 0
       THEN /\ line_buffer' = Accumulate(line_buffer, chunk)
            /\ chunk' = << >>
            /\ UNCHANGED <<event_buffer, pc, requested, items, historyVars>>
       ELSE /\ chunk' = Drop(chunk, i)
            /\ LineRead(Accumulate(line_buffer, Take(chunk, i)))
    /\ UNCHANGED <<response, returned, serverVars, polls, requests, endPolls>>

\* the generator has returned (after `?` or `break`): the stream answers None
Return ==
    /\ StreamReturned /\ Polled /\ pc # "loop"
    /\ items' = Append(items, EndItem)
    /\ pc' = "done"
    /\ requested' = FALSE
    /\ UNCHANGED <<response, returned, serverVars, chunk, line_buffer, event_buffer,
                   historyVars, polls, requests, endPolls>>

Next ==
    \/ Events
    \/ Request
    \/ FillBufChunk
    \/ FillBufEnd
    \/ FillBufErr
    \/ ReadChunk
    \/ Return

Spec == Init /\ [][Next]_vars

SpecFields == InitFields /\ [][Next]_vars

TypeOK ==
    /\ pc \in {"loop", "failed", "done"}
    /\ requested \in BOOLEAN
    /\ srcState \in {"open", "ended", "failed"}
    /\ Len(lines) <= (IF MaxLines > MaxCutLines THEN MaxLines ELSE MaxCutLines)
    /\ cutKinds \subseteq {"empty", "in line", "before newline"}

\* ================================================================ properties
\* ----------------------------------------------------- reading the history
\* the events among the items, in the order received
Yielded == SelectSeq(items, LAMBDA it : it.kind = "Event")

\* the event yielded at line i (a line where an event was yielded)
EventAt(i) == Yielded[CHOOSE k \in 1..Len(yieldedAt) : yieldedAt[k] = i].event

YieldedLines == {yieldedAt[k] : k \in 1..Len(yieldedAt)}

\* the blank lines read so far
Boundaries == {i \in 1..Len(lines) : lines[i] = << >>}

\* the last boundary before line i, 0 for the start of the stream
PrevBoundary(i) ==
    LET before == {j \in Boundaries : j < i} IN
    IF before = {} THEN 0 ELSE CHOOSE j \in before : \A m \in before : m <= j

\* the lines read between the previous boundary and line i
Block(i) == SubSeq(lines, PrevBoundary(i) + 1, i - 1)

IsField(line, name) == line # << >> /\ parse_line(line).field = name

\* the values of the lines of ls that carry the field, in order
RECURSIVE FieldValues(_, _)
FieldValues(ls, name) ==
    IF ls = << >> THEN << >>
    ELSE (IF IsField(ls[1], name) THEN <<parse_line(ls[1]).value>> ELSE << >>)
         \o FieldValues(Drop(ls, 1), name)

\* the values joined with one '\n' between neighbours
RECURSIVE JoinLF(_)
JoinLF(vs) ==
    IF vs = << >> THEN << >>
    ELSE IF Len(vs) = 1 THEN vs[1]
    ELSE vs[1] \o <<NL>> \o JoinLF(Drop(vs, 1))

\* the values without the empty ones that come before the first non-empty one
RECURSIVE DropLeadingEmpty(_)
DropLeadingEmpty(vs) ==
    IF vs # << >> /\ vs[1] = << >> THEN DropLeadingEmpty(Drop(vs, 1)) ELSE vs

\* Option of the last value, None for no value
LastOf(vs) == IF vs = << >> THEN None ELSE Some(vs[Len(vs)])

\* every yielded event has its line, later than the one before, and that
\* line is a boundary
HistoryOK ==
    /\ Len(Yielded) = Len(yieldedAt)
    /\ \A k \in 1..Len(yieldedAt) : \A m \in 1..Len(yieldedAt) :
          k < m => yieldedAt[k] < yieldedAt[m]
    /\ YieldedLines \subseteq Boundaries

\* ------------------------------------------------------------------------ C1
\* C1 as stated: at every blank line an event is yielded if and only if at
\* least one data line, of any value, was read since the previous boundary.
C1_AnyDataLine ==
    /\ HistoryOK
    /\ \A i \in Boundaries :
          i \in YieldedLines <=> FieldValues(Block(i), FieldData) # << >>

\* C1 amended: at every blank line an event is yielded if and only if at
\* least one data line with a non-empty value was read since the previous
\* boundary; data lines with an empty value alone yield nothing.
C1_NonEmptyDataLine ==
    /\ HistoryOK
    /\ \A i \in Boundaries :
          i \in YieldedLines <=>
             \E j \in 1..Len(Block(i)) :
                IsField(Block(i)[j], FieldData) /\ parse_line(Block(i)[j]).value # << >>

\* a boundary that yielded, and one after only an empty data line that did not
C1_Witness ==
    /\ \E i \in Boundaries : i \in YieldedLines
    /\ \E i \in Boundaries : i \notin YieldedLines /\ Block(i) = <<DataEmpty>>

\* ------------------------------------------------------------------------ C2
\* C2 as stated: the data of every yielded event is the values of all data
\* lines read since the previous boundary, joined with one '\n' between
\* consecutive values.
C2_JoinAll ==
    /\ HistoryOK
    /\ \A i \in YieldedLines :
          EventAt(i).data = JoinLF(FieldValues(Block(i), FieldData))

\* C2 amended: the data of every yielded event is the values of the data
\* lines read since the previous boundary, from the first non-empty value on,
\* in arrival order, joined with one '\n' between consecutive values; empty
\* values before the first non-empty one add neither text nor separator.
C2_JoinFromFirstNonEmpty ==
    /\ HistoryOK
    /\ \A i \in YieldedLines :
          EventAt(i).data = JoinLF(DropLeadingEmpty(FieldValues(Block(i), FieldData)))

\* an event of three data lines, the first of them with an empty value
C2_Witness ==
    \E i \in YieldedLines :
       /\ Block(i) = <<DataEmpty, DataA, DataEmpty>>
       /\ EventAt(i).data = <<"a", NL>>

\* ------------------------------------------------------------------------ C3
\* the lines read before line i, whatever their block
Before(i) == SubSeq(lines, 1, i - 1)

\* the retry values that parse, as numbers of milliseconds
RECURSIVE ParsedRetries(_)
ParsedRetries(vs) ==
    IF vs = << >> THEN << >>
    ELSE (IF ParseU64(vs[1]) # None THEN ParseU64(vs[1]) ELSE << >>)
         \o ParsedRetries(Drop(vs, 1))

\* C3: every yielded event carries the value of the most recent id line and
\* of the most recent retry line that parsed, read anywhere earlier on the
\* stream, and None only when there was none: no dispatch clears them.
C3_IdRetryPersist ==
    /\ HistoryOK
    /\ \A i \in YieldedLines :
          /\ EventAt(i).last_event_id = LastOf(FieldValues(Before(i), FieldId))
          /\ EventAt(i).retry = LastOf(ParsedRetries(FieldValues(Before(i), FieldRetry)))

\* an event that carries an id or a retry read in an earlier block that was
\* discarded
C3_Witness ==
    \E i \in YieldedLines :
       /\ PrevBoundary(i) > 0
       /\ PrevBoundary(i) \notin YieldedLines
       /\ FieldValues(Block(i), FieldId) = << >>
       /\ FieldValues(Block(i), FieldRetry) = << >>
       /\ \/ EventAt(i).last_event_id = Some(<<"2">>)
          \/ EventAt(i).retry = Some(7)

\* ------------------------------------------------------------------------ C4
\* C4 as stated: the event_type of every yielded event is the value of the
\* last event line read since the previous boundary, "message" if there was
\* none.
C4_LastEventLine ==
    /\ HistoryOK
    /\ \A i \in YieldedLines :
          LET types == FieldValues(Block(i), FieldEvent) IN
          EventAt(i).event_type = IF types = << >> THEN Message ELSE types[Len(types)]

\* C4 amended: the event_type of every yielded event is the value of the
\* last event line read since the previous boundary, and is "message" if there
\* was none or if that value is empty; every boundary, a discarded one too,
\* clears it, so an event line of a discarded block affects no later event.
C4_LastEventLineOrMessage ==
    /\ HistoryOK
    /\ \A i \in YieldedLines :
          LET types == FieldValues(Block(i), FieldEvent) IN
          EventAt(i).event_type =
             IF types = << >> \/ types[Len(types)] = << >> THEN Message
             ELSE types[Len(types)]

\* an event of type "message" right after a discarded block that had an
\* event line
C4_Witness ==
    \E i \in YieldedLines :
       /\ PrevBoundary(i) > 0
       /\ Block(PrevBoundary(i)) = <<EventT>>
       /\ EventAt(i).event_type = Message

\* ------------------------------------------------------------------------ C5
\* the lines of a body: the bytes between '\n's, and the bytes after the last
\* '\n' when there are any
RECURSIVE SplitLines(_)
SplitLines(bytes) ==
    LET i == FirstIndex(bytes, NL) IN
    IF bytes = << >> THEN << >>
    ELSE IF i = 0 THEN <<bytes>>
    ELSE <<Take(bytes, i - 1)>> \o SplitLines(Drop(bytes, i))

\* the event a boundary assembles from the lines before it
AssembledAt(i) ==
    LET types == FieldValues(Block(i), FieldEvent) IN
    [event_type    |-> IF types = << >> \/ types[Len(types)] = << >> THEN Message
                       ELSE types[Len(types)],
     data          |-> JoinLF(DropLeadingEmpty(FieldValues(Block(i), FieldData))),
     last_event_id |-> LastOf(FieldValues(Before(i), FieldId)),
     retry         |-> LastOf(ParsedRetries(FieldValues(Before(i), FieldRetry)))]

HasError == \E i \in 1..Len(items) : items[i].kind = "IoError"

\* C5: the k-th item yielded is the event assembled at the k-th boundary
\* that had non-empty data: the events come in the order of their boundaries,
\* none twice, none skipped, no line of the body is passed over, and when
\* the body has ended the items are these events and then the end.
C5_ArrivalOrder ==
    /\ HistoryOK
    /\ YieldedLines = {i \in Boundaries : AssembledAt(i).data # << >>}
    /\ \A k \in 1..Len(yieldedAt) : items[k] = EventItem(AssembledAt(yieldedAt[k]))
    /\ lines = Take(SplitLines(sent), Len(lines))
    /\ (pc = "done" /\ ~HasError) =>
          /\ lines = SplitLines(sent)
          /\ Len(items) > Len(yieldedAt)
          /\ \A k \in (Len(yieldedAt) + 1)..Len(items) : items[k] = EndItem

\* two different events received in the order of their boundaries, then the end
C5_Witness ==
    /\ Len(yieldedAt) = 2
    /\ items[1] # items[2]
    /\ items[1] = EventItem(AssembledAt(yieldedAt[1]))
    /\ Len(items) = 3
    /\ items[3] = EndItem

\* ------------------------------------------------------------------------ C6
\* C6: events() returns BadStatus with the status when the status is not 200,
\* BadContentType with the header when the status is 200 and the Content-Type
\* is absent or not exactly text/event-stream, and a stream only when both
\* checks pass; with an error no chunk is ever taken from the body and no
\* stream is polled.
C6_Validation ==
    /\ returned = None => polls = 0
    /\ returned # None =>
          LET r == returned[1] IN
          /\ r[1] = "Ok" <=>
                (response.status = 200 /\ response.content_type = <<"text/event-stream">>)
          /\ response.status # 200 =>
                r[1] = "BadStatus" /\ r[2] = response.status
          /\ (response.status = 200 /\ response.content_type # <<"text/event-stream">>) =>
                r[1] = "BadContentType" /\ r[2] = response.content_type
          /\ r[1] # "Ok" => polls = 0 /\ requests = 0 /\ items = << >> /\ sent = << >>

\* a response with status 200 and no Content-Type header was refused
C6_Witness ==
    /\ returned = Some(<<"BadContentType", None>>)
    /\ response.status = 200
    /\ polls = 0

\* ------------------------------------------------------------------------ C7
\* the bytes the reader has taken out of its chunks
Received == Take(sent, Len(sent) - Len(wire) - Len(chunk))

\* the lines read_line has returned or failed on: those that end in '\n', and
\* the unterminated last one once the source has ended
LinesRead ==
    LET ls == SplitLines(Received) IN
    IF Received = << >> \/ Received[Len(Received)] = NL \/ srcState = "ended"
    THEN ls ELSE Take(ls, Len(ls) - 1)

\* a read of the next line has failed: the source failed, or a line is not UTF-8
ReadHasFailed ==
    \/ srcState = "failed"
    \/ \E i \in 1..Len(LinesRead) : ~ValidUtf8(LinesRead[i])

\* C7: when reading the next line fails, the stream yields one error item
\* and then ends: the items are events, then the error, then only ends; and
\* there is no error item without a failed read.
C7_ErrorThenEnd ==
    /\ ReadHasFailed <=> HasError
    /\ \A i \in 1..Len(items) : items[i].kind = "IoError" =>
          /\ \A j \in 1..(i - 1) : items[j].kind = "Event"
          /\ \A j \in (i + 1)..Len(items) : items[j] = EndItem

\* an event, then the error item, then the end
C7_Witness ==
    /\ Len(items) = 3
    /\ items[1].kind = "Event"
    /\ items[2] = ErrorItem
    /\ items[3] = EndItem
    /\ srcState = "failed"

\* ------------------------------------------------------------------------ C8
\* the blank lines of a sequence of lines
BlankCount(ls) == Cardinality({i \in 1..Len(ls) : ls[i] = << >>})

\* C8: at the end of the input the fields accumulated since the last boundary
\* are dropped: never more events than blank lines read, also after the end.
C8_NoFlushAtEnd ==
    /\ Len(Yielded) <= BlankCount(lines)
    /\ BlankCount(lines) <= BlankCount(SplitLines(sent))

\* the body ended after a data line without a blank line: the one event is
\* that of the boundary before it
C8_Witness ==
    /\ pc = "done"
    /\ srcState = "ended"
    /\ lines = <<DataB, BlankLine, DataA>>
    /\ event_buffer.data = <<"a">>
    /\ Len(Yielded) = 1
    /\ items[Len(items)] = EndItem

\* ------------------------------------------------------------------------ C9
\* after an end the consumer receives only ends
EndIsFinal ==
    \A i \in 1..Len(items) : items[i] = EndItem =>
       \A j \in (i + 1)..Len(items) : items[j] = EndItem

\* C9 as stated: once the byte source has ended normally, an item handed to
\* the consumer is the end, never an event or an error, and after an end
\* come only ends.
C9_EndNeverError ==
    /\ []EndIsFinal
    /\ [][(srcState' = "ended" /\ items' # items) => items' = Append(items, EndItem)]_vars

\* C9 amended: once the byte source has ended normally, an item handed to the
\* consumer is the end, except that the request in which the end is reached
\* yields one error item when the unterminated last bytes of the body are not
\* valid UTF-8; no event is yielded once the source has ended, and after an
\* end come only ends.
C9_EndOrDecodingError ==
    /\ []EndIsFinal
    /\ [][(srcState' = "ended" /\ items' # items) =>
             \/ items' = Append(items, EndItem)
             \/ /\ srcState = "open"
                /\ line_buffer # << >>
                /\ ~ValidUtf8(line_buffer)
                /\ items' = Append(items, ErrorItem)]_vars

\* the source ended after an event, and the consumer has asked once more
C9_Witness ==
    /\ srcState = "ended"
    /\ Len(items) = 3
    /\ items[1].kind = "Event"
    /\ items[2] = EndItem
    /\ items[3] = EndItem

\* ----------------------------------------------------------------------- C10
\* every request has its one item, but the one that is waiting
OneItemPerRequest == Len(items) = requests - (IF requested THEN 1 ELSE 0)

\* C10: a chunk is taken from the byte source only while a request of the
\* consumer is outstanding, and every request is answered by exactly one item
\* (an event, an error or the end).
C10_LazyPull ==
    /\ []OneItemPerRequest
    /\ [][/\ polls' # polls => requested
          /\ items' # items =>
                /\ requested /\ ~requested'
                /\ Len(items') = Len(items) + 1
                /\ Take(items', Len(items)) = items]_vars

\* an event was handed over while lines of its chunk are still unread, and
\* nothing is taken or read until the consumer asks again
C10_Witness ==
    /\ ~requested
    /\ requests = 1
    /\ polls = 2
    /\ Len(items) = 1
    /\ items[1].kind = "Event"
    /\ chunk # << >>
    /\ ~ENABLED ReadChunk
    /\ ~ENABLED FillBufChunk

\* ----------------------------------------------------------------------- C11
\* the bytes of the last line the reader has taken, when that line has no
\* '\n' yet
RECURSIVE TailOf(_)
TailOf(bytes) ==
    LET i == FirstIndex(bytes, NL) IN
    IF i = 0 THEN bytes ELSE TailOf(Drop(bytes, i))

\* the boundaries of the lines read that have data to yield
DataBoundaries == {i \in Boundaries : AssembledAt(i).data # << >>}

\* C11: what the stream yields depends only on the bytes of the body in
\* their order, not on how they were cut into chunks: the lines read are the
\* lines of the bytes taken so far, up to the first that is not UTF-8; the
\* bytes of an unfinished line wait in the line buffer; and the items are the
\* events these lines assemble, wherever the chunks ended.
C11_ChunkingIrrelevant ==
    /\ HistoryOK
    /\ Len(lines) <= Len(LinesRead)
    /\ lines = Take(LinesRead, Len(lines))
    /\ Len(lines) < Len(LinesRead) =>
          /\ Len(LinesRead) = Len(lines) + 1
          /\ ~ValidUtf8(LinesRead[Len(LinesRead)])
    /\ (pc = "loop" /\ srcState = "open") => line_buffer = TailOf(Received)
    /\ YieldedLines = DataBoundaries
    /\ \A k \in 1..Len(yieldedAt) : items[k] = EventItem(AssembledAt(yieldedAt[k]))

\* an event of a data line whose '\n' came in another chunk than the line
C11_Witness ==
    /\ Len(lines) = 2
    /\ lines[1] = DataA
    /\ "before newline" \in cutKinds
    /\ Len(yieldedAt) = 1
    /\ items[1].event.data = <<"a">>

\* ----------------------------------------------------------------------- C12
KnownFields == {FieldEvent, FieldData, FieldId, FieldRetry}

\* the step reads one more line
ReadsLine == Len(lines') = Len(lines) + 1

\* C12: reading a line that is not blank and whose field is none of event,
\* data, id and retry (a line without a colon such as "nodata", a comment, an
\* unknown field) changes nothing of the event buffer, yields no item and no
\* error, and leaves the loop running.
C12_UnknownFieldIgnored ==
    [][(/\ ReadsLine
        /\ lines'[Len(lines')] # << >>
        /\ parse_line(lines'[Len(lines')]).field \notin KnownFields)
       => /\ event_buffer' = event_buffer
          /\ items' = items
          /\ pc' = pc]_vars

\* an event of one data line, read through two different ignored lines
C12_Witness ==
    \E i \in YieldedLines :
       /\ Len(Block(i)) = 3
       /\ Block(i)[1] = DataA
       /\ Block(i)[2] \in {NoData, Comment, UpperData}
       /\ Block(i)[3] \in {NoData, Comment, UpperData}
       /\ Block(i)[2] # Block(i)[3]
       /\ EventAt(i) = [event_type |-> Message, data |-> <<"a">>,
                        last_event_id |-> None, retry |-> None]

\* ----------------------------------------------------------------------- C13
\* C13: reading a retry line yields nothing; when its value does not parse
\* as an unsigned integer the event buffer is left as it was, and when it
\* parses the retry becomes that number and nothing else changes. The values
\* "5" and "+3" parse, " 7" does not.
C13_RetryParsedOrIgnored ==
    /\ [](\A k \in 1..Len(Yielded) : Yielded[k].event.retry \in {None, Some(5), Some(3)})
    /\ [][(ReadsLine /\ IsField(lines'[Len(lines')], FieldRetry))
          => /\ items' = items
             /\ pc' = pc
             /\ LET n == ParseU64(parse_line(lines'[Len(lines')]).value) IN
                IF n = None
                THEN event_buffer' = event_buffer
                ELSE event_buffer' = [event_buffer EXCEPT !.retry = n]]_vars

\* an event that keeps the retry read before a retry line that does not parse
C13_Witness ==
    \E i \in YieldedLines :
       /\ Block(i) = <<Retry5, RetrySpaced, DataA>>
       /\ EventAt(i).retry = Some(5)

\* ----------------------------------------------------------------------- C14
\* C14: no yielded event has empty data; a boundary at which the data is
\* empty yields nothing and still clears the type and the data; a blank line
\* right after a blank line never yields.
C14_NoEmptyData ==
    /\ HistoryOK
    /\ \A k \in 1..Len(Yielded) : Yielded[k].event.data # << >>
    /\ \A i \in Boundaries : (i > 1 /\ lines[i - 1] = << >>) => i \notin YieldedLines
    /\ (lines # << >> /\ lines[Len(lines)] = << >>) =>
          event_buffer.event_type = << >> /\ event_buffer.data = << >>

\* a boundary after an event line alone yielded nothing and cleared the type
C14_Witness ==
    /\ Len(lines) = 2
    /\ lines[1] = EventT
    /\ lines[2] = BlankLine
    /\ items = << >>
    /\ event_buffer.event_type = << >>

\* ----------------------------------------------------------------------- C15
\* the event buffer the lines read leave behind
BufferAfter(ls) ==
    LET blanks == {i \in 1..Len(ls) : ls[i] = << >>}
        last   == IF blanks = {} THEN 0 ELSE CHOOSE i \in blanks : \A j \in blanks : j <= i
        blk    == SubSeq(ls, last + 1, Len(ls))
        types  == FieldValues(blk, FieldEvent)
    IN [event_type    |-> IF types = << >> THEN << >> ELSE types[Len(types)],
        data          |-> JoinLF(DropLeadingEmpty(FieldValues(blk, FieldData))),
        last_event_id |-> LastOf(FieldValues(ls, FieldId)),
        retry         |-> LastOf(ParsedRetries(FieldValues(ls, FieldRetry)))]

\* every line of the body has been read, and its field applied
AllLinesApplied ==
    /\ event_buffer = BufferAfter(lines)
    /\ (pc = "done" /\ ~HasError) => lines = SplitLines(sent)

\* C15: bytes at the end of the body that end in no '\n' are read as one last
\* line, as if a '\n' ended them, and its field is applied before the stream
\* ends; the loop is left for the end only by a read of no bytes at the end
\* of the source.
C15_FinalLineProcessed ==
    /\ []AllLinesApplied
    /\ [][(pc = "loop" /\ pc' = "done")
          => /\ line_buffer = << >>
             /\ srcState' = "ended"
             /\ lines' = lines
             /\ lines = SplitLines(sent)]_vars

\* the body ended in a data line without its '\n': the line was read and its
\* value is in the buffer when the stream has ended
C15_Witness ==
    /\ pc = "done"
    /\ ~HasError
    /\ sent # << >>
    /\ sent[Len(sent)] # NL
    /\ lines[Len(lines)] = DataA
    /\ event_buffer.data = <<"a">>
    /\ items[Len(items)] = EndItem

\* ----------------------------------------------------------------------- C16
\* the places of the colons of a line
Colons(line) == {k \in 1..Len(line) : line[k] = ":"}

\* C16: parse_line splits every line read at its first colon only: the field
\* is what comes before it and the value what comes after it, less one
\* leading space when there is one, further spaces and colons kept; a line
\* with no colon is all field and has an empty value.
C16_SplitAtFirstColon ==
    \A i \in 1..Len(lines) :
       LET l == lines[i]
           p == parse_line(l)
       IN /\ Colons(l) = {} => p.field = l /\ p.value = << >>
          /\ \A k \in Colons(l) :
                (\A j \in Colons(l) : k <= j) =>
                   LET rest == SubSeq(l, k + 1, Len(l)) IN
                   /\ p.field = SubSeq(l, 1, k - 1)
                   /\ p.value = IF rest # << >> /\ rest[1] = " "
                                THEN SubSeq(rest, 2, Len(rest))
                                ELSE rest

\* an event of a value with a second colon, a value with two leading spaces
\* and a data line without a colon
C16_Witness ==
    /\ lines = <<DataColon, DataSpaces, DataBare, BlankLine>>
    /\ Len(items) = 1
    /\ items[1].event.data = <<"a", ":", "b", NL, " ", "a", NL>>

\* ----------------------------------------------------------------------- C17
\* the event lines among the lines
EventLines(ls) == SelectSeq(ls, LAMBDA l : IsField(l, FieldEvent))

\* C17: every yielded event has a type that is not empty: after a last
\* event line "event:" or "event: " the type is "message".
C17_TypeNeverEmpty ==
    /\ HistoryOK
    /\ \A k \in 1..Len(Yielded) : Yielded[k].event.event_type # << >>
    /\ \A i \in YieldedLines :
          LET evs == EventLines(Block(i)) IN
          (evs # << >> /\ evs[Len(evs)] \in {EventEmpty, EventSpace}) =>
             EventAt(i).event_type = Message

\* an event of type "message" after the line "event: "
C17_Witness ==
    \E i \in YieldedLines :
       /\ Block(i) = <<EventSpace, DataColon>>
       /\ EventAt(i).event_type = Message

\* ----------------------------------------------------------------------- C18
\* C18: the events of all boundaries read before a read fails are received
\* before the error item, which is the last item but for ends; the fields
\* read since the last boundary are dropped: every event is that of a
\* boundary, also after the failure.
C18_EventsBeforeError ==
    /\ Len(Yielded) = Cardinality(DataBoundaries)
    /\ HasError =>
          LET e == Len(yieldedAt) + 1 IN
          /\ YieldedLines = DataBoundaries
          /\ Len(items) >= e
          /\ \A k \in 1..(e - 1) : items[k] = EventItem(AssembledAt(yieldedAt[k]))
          /\ items[e] = ErrorItem
          /\ \A j \in (e + 1)..Len(items) : items[j] = EndItem

\* a read failed with data pending after an event: the event, the error and
\* the end were received, and the pending data never
C18_Witness ==
    /\ Len(items) = 3
    /\ items[1].kind = "Event"
    /\ items[2] = ErrorItem
    /\ items[3] = EndItem
    /\ event_buffer.data # << >>

\* ----------------------------------------------------------------------- C19
\* the line ends in a carriage return
EndsInCR(line) == line # << >> /\ line[Len(line)] = CR

\* only '\n' is taken off a line, and no body of CRLF lines yields an event
OnlyNewlineStripped ==
    /\ lines = Take(SplitLines(sent), Len(lines))
    /\ YieldedLines \subseteq Boundaries
    /\ (\A i \in 1..Len(lines) : EndsInCR(lines[i])) => Yielded = << >>

\* C19: only the '\n' is taken off a line, so a line that is a lone '\r' is
\* no boundary: it is read as a line of an unknown field, changes nothing and
\* yields nothing; a body whose lines all end in "\r\n" never yields an event.
C19_CarriageReturnKept ==
    /\ []OnlyNewlineStripped
    /\ [][(ReadsLine /\ lines'[Len(lines')] = CrLine)
          => /\ event_buffer' = event_buffer
             /\ items' = items
             /\ pc' = pc]_vars

\* a body of a data line and an empty line, both ended by "\r\n", has ended
\* without an event, the data still in the buffer
C19_Witness ==
    /\ lines = <<DataACr, CrLine>>
    /\ sent = DataACr \o <<NL, CR, NL>>
    /\ pc = "done"
    /\ items = <<EndItem>>
    /\ event_buffer.data = <<"a", CR>>

\* ----------------------------------------------------------------------- C20
\* C20: the status is checked first: a status other than 200 gives BadStatus
\* whatever the Content-Type is, and BadContentType is given only with
\* status 200.
C20_StatusFirst ==
    returned # None =>
       /\ response.status # StatusOK => returned[1] = <<"BadStatus", response.status>>
       /\ returned[1][1] = "BadContentType" => response.status = StatusOK

\* a response with status 404 and a wrong Content-Type was refused for its
\* status
C20_Witness ==
    /\ response = [status |-> 404, content_type |-> <<"text/plain">>]
    /\ returned = Some(<<"BadStatus", 404>>)
====
